---- MODULE Spec2Model ----
(***************************************************************************)
(* PCXtoTTF: FontCreator (src/src/font_creator.py).                        *)
(*                                                                         *)
(* The state is the FontCreator object and the tables of the TTFont it     *)
(* builds.  create_font is followed step by step: table initialisation,    *)
(* the .notdef glyph, one loop iteration per character, the trailing space *)
(* glyph.  A glyph outline is the sequence of closed paths drawn on the    *)
(* pen, each path being the sequence of points given to moveTo / lineTo.   *)
(*                                                                         *)
(* caller tells who owns the FontCreator: convert_pcx_to_ttf, which calls  *)
(* create_font and then save_font and lets every exception end the run, or *)
(* code that uses the class directly and may call the two methods in any   *)
(* order, also after one of them raised.  completed records that some      *)
(* create_font call has returned; saved that TTFont.save was invoked.      *)
(***************************************************************************)
EXTENDS Integers, Sequences, FiniteSets, TLC

VARIABLES characters, font, glyph_names, glyphOrder, head, hhea, maxp,
          hmtx, cmap, glyf, pc, i, saved, raised, caller, completed

vars == <<characters, font, glyph_names, glyphOrder, head, hhea, maxp,
          hmtx, cmap, glyf, pc, i, saved, raised, caller, completed>>

(***************************************************************************)
(* Bounds of the model.                                                    *)
(***************************************************************************)
\* longest character list handed to FontCreator
MaxChars == 100
\* largest number of ink pixels in a cell of the single-cell inputs
MaxInk == 2

(***************************************************************************)
(* Program constants.                                                      *)
(***************************************************************************)
char_width == 8
char_height == 8
units_per_em == 1024
scale == units_per_em \div 8
bg_r == 159
bg_g == 91
bg_b == 83
ord_a == 97
ord_z == 122
PrivateUseBase == 57344
SpaceCode == 32
NotdefCode == 0
maxPointsValue == 4
maxContoursValue == 1

None == "None"
notdef == ".notdef"

(***************************************************************************)
(* Dictionaries: a Python dict is a function with a finite domain;         *)
(* d[k] = v adds the key or overwrites its value.                          *)
(***************************************************************************)
EmptyDict == [k \in {} |-> 0]

Put(d, k, v) == [x \in (DOMAIN d) \cup {k} |-> IF x = k THEN v ELSE d[x]]

(***************************************************************************)
(* Glyph names: f'glyph{k:05d}', decimal, zero-padded to five digits.      *)
(***************************************************************************)
Digit(d) ==
    CASE d = 0 -> "0" [] d = 1 -> "1" [] d = 2 -> "2" [] d = 3 -> "3"
      [] d = 4 -> "4" [] d = 5 -> "5" [] d = 6 -> "6" [] d = 7 -> "7"
      [] d = 8 -> "8" [] d = 9 -> "9"

RECURSIVE Decimal(_)
Decimal(k) == IF k < 10 THEN Digit(k) ELSE Decimal(k \div 10) \o Digit(k % 10)

Pad05(k) ==
    IF k < 10 THEN "0000" \o Decimal(k)
    ELSE IF k < 100 THEN "000" \o Decimal(k)
    ELSE IF k < 1000 THEN "00" \o Decimal(k)
    ELSE IF k < 10000 THEN "0" \o Decimal(k)
    ELSE Decimal(k)

GlyphName(k) == "glyph" \o Pad05(k)

\* the name of the trailing space glyph, one past the last character
SpaceGlyphName_same(chars) == GlyphName(Len(chars))
SpaceGlyphName(chars) == GlyphName(Len(chars) + 1)

\* create_font: ['.notdef', glyph00001 .. glyph{n}, glyph{n+1}]
GlyphOrderOf(chars) ==
    <<notdef>> \o [k \in 1..Len(chars) |-> GlyphName(k)]
               \o <<SpaceGlyphName(chars)>>

(***************************************************************************)
(* Raster cells.  A cell is char_img: rows y = 0..height-1 from the top,   *)
(* columns x = 0..width-1, each pixel an RGBA sample.                      *)
(***************************************************************************)
Background == <<bg_r, bg_g, bg_b, 255>>

\* colours that differ from the background in one channel, or in all
InkColours == { <<bg_r - 1, bg_g, bg_b, 255>>, <<bg_r, bg_g + 1, bg_b, 255>>,
                <<bg_r, bg_g, bg_b - 1, 255>>, <<0, 0, 0, 255>> }

Positions == (0..(char_width - 1)) \X (0..(char_height - 1))

\* the cell with colour c at the positions of S (as <<x, y>>), background elsewhere
CellWith(S, c) ==
    [y \in 0..(char_height - 1) |->
        [x \in 0..(char_width - 1) |-> IF <<x, y>> \in S THEN c ELSE Background]]

\* a cell of two-channel samples (grey, alpha): an array of shape (8, 8, 2)
TwoChannelCell ==
    [y \in 0..(char_height - 1) |-> [x \in 0..(char_width - 1) |-> <<0, 255>>]]

Height(char_img) == Cardinality(DOMAIN char_img)
Width(char_img) == IF Height(char_img) = 0 THEN 0 ELSE Cardinality(DOMAIN char_img[0])

\* pixel[2] of is_background raises IndexError when a sample has fewer than
\* three channels; the first pixel of the scan is the one that raises
PixelRaises(char_img) ==
    /\ Height(char_img) * Width(char_img) > 0
    /\ Len(char_img[0][0]) < 3

is_background_r_only(pixel) == pixel[1] = bg_r
is_background(pixel) == pixel[1] = bg_r /\ pixel[2] = bg_g /\ pixel[3] = bg_b

\* the closed square drawn for the ink pixel (x, y): moveTo and three lineTo
PixelSquare(x, y) ==
    LET x0 == x * scale
        y0 == (7 - y) * scale
        x1 == (x + 1) * scale
        y1 == (8 - y) * scale
    IN  << <<x0, y0>>, <<x1, y0>>, <<x1, y1>>, <<x0, y1>> >>

\* the pixels of the cell in the order of the loops: for y, for x
ScanOrder(char_img) ==
    LET w == Width(char_img)
    IN  [k \in 1..(Height(char_img) * w) |-> <<(k - 1) % w, (k - 1) \div w>>]

IsInk(char_img, p) == ~is_background(char_img[p[2]][p[1]])

\* the paths on the pen after the pixel loops
PenPaths(char_img) ==
    LET ink == SelectSeq(ScanOrder(char_img), LAMBDA p : IsInk(char_img, p))
    IN  [k \in 1..Len(ink) |-> PixelSquare(ink[k][1], ink[k][2])]

\* moveTo((0, 0)); lineTo((0, 0)); closePath()
EmptyGlyphPath == << << <<0, 0>>, <<0, 0>> >> >>

\* the outline stored for a cell: the pen is replaced when nothing was drawn
CellGlyph_nofallback(char_img) == PenPaths(char_img)
CellGlyph(char_img) ==
    LET paths == PenPaths(char_img)
        has_pixels == Len(paths) > 0
    IN  IF ~has_pixels THEN EmptyGlyphPath ELSE paths

NotdefGlyph ==
    << << <<0, 0>>, <<char_width * scale, 0>>,
          <<char_width * scale, char_height * scale>>,
          <<0, char_height * scale>> >> >>

Metrics == <<char_width * scale, 0>>

(***************************************************************************)
(* Character codes of the glyph at loop index k (0-based).                 *)
(***************************************************************************)
base_ascii(k) == 33 + k - 1
original_pos(k) == base_ascii(k) + 32

ascii_value(k) ==
    LET first == IF base_ascii(k) >= ord_a /\ base_ascii(k) <= ord_z
                 THEN base_ascii(k)
                 ELSE base_ascii(k) - 32
    IN  IF original_pos(k) >= 32 /\ original_pos(k) <= 63
        THEN 62 + (original_pos(k) - 32)
        ELSE first

IsLower(a) == a >= ord_a /\ a <= ord_z

uppercase_ascii_wrong(a) == a - 31
uppercase_ascii(a) == a - 32
extended_ascii(a) == a + 128
private_use_code(k) == PrivateUseBase + (original_pos(k) - 32)

\* the writes of one loop iteration to the cmap subtable, in order
MapGlyph(m, k, glyph_name) ==
    LET a  == ascii_value(k)
        m1 == Put(m, a, glyph_name)
        m2 == IF IsLower(a) THEN Put(m1, uppercase_ascii(a), glyph_name) ELSE m1
        m3 == IF original_pos(k) > 61
              THEN Put(Put(m2, extended_ascii(a), glyph_name),
                       private_use_code(k), glyph_name)
              ELSE m2
    IN  m3

\* cmap[32] = space_glyph
MapSpace_keep(m, space_glyph) ==
    IF SpaceCode \in DOMAIN m THEN m ELSE Put(m, SpaceCode, space_glyph)
MapSpace(m, space_glyph) == Put(m, SpaceCode, space_glyph)

\* numberOfHMetrics / numGlyphs = len(self.glyph_names)
GlyphCount_short(names) == Len(names) - 1
GlyphCount(names) == Len(names)

(***************************************************************************)
(* Inputs.                                                                 *)
(***************************************************************************)
\* the position of the two-channel cell in the sheet that has one
BadCellAt == 3

\* sheet s, cell k (1-based): blank cells, or cells of one or two ink pixels,
\* or blank cells with one two-channel cell among them
SheetCell(s, k) ==
    IF s = 0 THEN CellWith({}, Background)
    ELSE IF s = 2 THEN (IF k = BadCellAt THEN TwoChannelCell ELSE CellWith({}, Background))
    ELSE CellWith({<<k % 8, (k \div 8) % 8>>} \cup (IF k % 2 = 1 THEN {<<7, 7>>} ELSE {}),
                  <<0, 0, 0, 255>>)

Sheets == {0, 1, 2}

\* cells with at most MaxInk ink pixels, all of one colour
SmallInkSets ==
    {{}} \cup {{f[k] : k \in 1..MaxInk} : f \in [1..MaxInk -> Positions]}

StartState ==
    /\ font = None
    /\ glyph_names = None
    /\ glyphOrder = << >>
    /\ head = EmptyDict
    /\ hhea = EmptyDict
    /\ maxp = EmptyDict
    /\ hmtx = EmptyDict
    /\ cmap = EmptyDict
    /\ glyf = EmptyDict
    /\ pc = "new"
    /\ i = 0
    /\ saved = FALSE
    /\ raised = None
    /\ completed = FALSE

\* the 16 x 6 grid of extract_characters
chars_per_row == 16
chars_per_col == 6

\* FontCreator(characters, ...) on a list of n cells
Init ==
    /\ \/ /\ caller = "direct"
          /\ \E n \in 0..MaxChars, s \in Sheets :
                characters = [k \in 1..n |-> SheetCell(s, k)]
       \/ /\ caller = "convert"
          /\ \E s \in {0, 1} :
                characters = [k \in 1..(chars_per_row * chars_per_col) |-> SheetCell(s, k)]
    /\ StartState

\* FontCreator(characters, ...) on a single cell
InitCell ==
    /\ caller = "direct"
    /\ \/ \E S \in SmallInkSets, c \in InkColours :
             characters = << CellWith(S, c) >>
       \/ characters = << TwoChannelCell >>
    /\ StartState

(***************************************************************************)
(* create_font, lines 44-69: glyph order and the tables.                   *)
(***************************************************************************)
CreateTables ==
    /\ \/ pc = "new"
       \/ caller = "direct" /\ pc \in {"aborted", "created"}
    /\ font' = "TTFont"
    /\ glyph_names' = GlyphOrderOf(characters)
    /\ glyphOrder' = glyph_names'
    /\ head' = [unitsPerEm |-> units_per_em, xMin |-> 0, yMin |-> 0,
                xMax |-> char_width * scale, yMax |-> char_height * scale]
    /\ hhea' = [numberOfHMetrics |-> GlyphCount(glyph_names')]
    /\ maxp' = [numGlyphs |-> GlyphCount(glyph_names'),
                maxPoints |-> maxPointsValue, maxContours |-> maxContoursValue]
    /\ hmtx' = EmptyDict
    /\ cmap' = Put(EmptyDict, NotdefCode, notdef)
    /\ glyf' = EmptyDict
    /\ pc' = "tables"
    /\ UNCHANGED <<characters, i, saved, raised, caller, completed>>

(***************************************************************************)
(* _create_glyphs, lines 288-296: the .notdef glyph.                       *)
(***************************************************************************)
CreateNotdef ==
    /\ pc = "tables"
    /\ glyf' = Put(glyf, notdef, NotdefGlyph)
    /\ hmtx' = Put(hmtx, notdef, Metrics)
    /\ i' = 0
    /\ pc' = "glyphs"
    /\ UNCHANGED <<characters, font, glyph_names, glyphOrder, head, hhea,
                   maxp, cmap, saved, raised, caller, completed>>

(***************************************************************************)
(* _create_glyphs, lines 299-382: one iteration of the character loop.     *)
(***************************************************************************)
ProcessChar ==
    /\ pc = "glyphs"
    /\ i < Len(characters)
    /\ ~PixelRaises(characters[i + 1])
    /\ LET glyph_name == GlyphName(i + 1)
       IN  /\ glyf' = Put(glyf, glyph_name, CellGlyph(characters[i + 1]))
           /\ hmtx' = Put(hmtx, glyph_name, Metrics)
           /\ cmap' = MapGlyph(cmap, i, glyph_name)
    /\ i' = i + 1
    /\ UNCHANGED <<characters, font, glyph_names, glyphOrder, head, hhea,
                   maxp, pc, saved, raised, caller, completed>>

\* line 285 raises in the pixel loop: create_font ends with the exception,
\* self.font and the tables stay as they are
ProcessCharRaises ==
    /\ pc = "glyphs"
    /\ i < Len(characters)
    /\ PixelRaises(characters[i + 1])
    /\ raised' = "IndexError"
    /\ pc' = "aborted"
    /\ UNCHANGED <<characters, font, glyph_names, glyphOrder, head, hhea,
                   maxp, hmtx, cmap, glyf, i, saved, caller, completed>>

(***************************************************************************)
(* _create_glyphs, lines 384-392: the space glyph; create_font returns.    *)
(***************************************************************************)
AddSpace ==
    /\ pc = "glyphs"
    /\ i = Len(characters)
    /\ LET space_glyph == SpaceGlyphName(characters)
       IN  /\ glyf' = Put(glyf, space_glyph, EmptyGlyphPath)
           /\ hmtx' = Put(hmtx, space_glyph, Metrics)
           /\ cmap' = MapSpace(cmap, space_glyph)
    /\ pc' = "created"
    /\ completed' = TRUE
    /\ UNCHANGED <<characters, font, glyph_names, glyphOrder, head, hhea,
                   maxp, i, saved, raised, caller>>

(***************************************************************************)
(* save_font.  It can be called whenever no create_font call is running;   *)
(* convert_pcx_to_ttf calls it only after create_font has returned.        *)
(***************************************************************************)
SaveFontCalled ==
    /\ pc \in {"new", "aborted", "created"}
    /\ caller = "convert" => pc = "created"

SaveFontRaises ==
    /\ SaveFontCalled
    /\ font = None
    /\ raised' = "ValueError"
    /\ UNCHANGED <<characters, font, glyph_names, glyphOrder, head, hhea,
                   maxp, hmtx, cmap, glyf, pc, i, saved, caller, completed>>

SaveFont ==
    /\ SaveFontCalled
    /\ font # None
    /\ saved' = TRUE
    /\ UNCHANGED <<characters, font, glyph_names, glyphOrder, head, hhea,
                   maxp, hmtx, cmap, glyf, pc, i, raised, caller, completed>>

Next ==
    \/ CreateTables
    \/ CreateNotdef
    \/ ProcessChar
    \/ ProcessCharRaises
    \/ AddSpace
    \/ SaveFontRaises
    \/ SaveFont

Spec == Init /\ [][Next]_vars

SpecCell == InitCell /\ [][Next]_vars

(***************************************************************************)
(* Shorthands for the properties.                                          *)
(***************************************************************************)
n == Len(characters)
Created == pc = "created"
Resolves(code, name) == code \in DOMAIN cmap /\ cmap[code] = name
Range(f) == {f[x] : x \in DOMAIN f}
Occurrences(seq, v) == Cardinality({k \in 1..Len(seq) : seq[k] = v})

RGB(pixel) == <<pixel[1], pixel[2], pixel[3]>>
\* the positions <<x, y>> of the cell whose colour is not the background triple
InkOf(char_img) == {p \in Positions : RGB(char_img[p[2]][p[1]]) # <<159, 91, 83>>}
PointsOf(path) == {path[k] : k \in 1..Len(path)}
\* the path is the 4-point square of pixel <<x, y>> in design units
IsSquareOf(path, p) ==
    /\ Len(path) = 4
    /\ PointsOf(path) = { <<p[1] * 128, (7 - p[2]) * 128>>,
                          <<(p[1] + 1) * 128, (7 - p[2]) * 128>>,
                          <<(p[1] + 1) * 128, (8 - p[2]) * 128>>,
                          <<p[1] * 128, (8 - p[2]) * 128>> }
InBox(pt) == pt[1] >= 0 /\ pt[1] <= 1024 /\ pt[2] >= 0 /\ pt[2] <= 1024

(***************************************************************************)
(* C1: after create_font has completed, code 0 of the character map is     *)
(* still the missing glyph: cmap[0] = '.notdef'.                           *)
(***************************************************************************)
C1_NotdefAtZero == Created => Resolves(0, notdef)

(***************************************************************************)
(* C2: after create_font on n characters, the trailing glyph glyph{n+1} is *)
(* what code 32 resolves to, and no other code resolves to it.             *)
(***************************************************************************)
C2_SpaceOnlyAt32 ==
    Created =>
        /\ Resolves(32, GlyphName(n + 1))
        /\ \A c \in DOMAIN cmap : cmap[c] = GlyphName(n + 1) => c = 32

\* a content glyph had computed code 32 before the trailing glyph took it
C2_Witness ==
    /\ Created
    /\ n >= 33
    /\ ascii_value(32) = 32
    /\ cmap[32] = GlyphName(n + 1)

(***************************************************************************)
(* C3: after create_font, every content glyph whose original_pos exceeds   *)
(* 61 is resolved by three distinct codes: its primary code, primary + 128 *)
(* and 0xE000 + (original_pos - 32); none of them was overwritten.         *)
(***************************************************************************)
C3_ThreeCodes ==
    Created =>
        \A k \in 0..(n - 1) :
            (33 + k - 1 + 32 > 61) =>
                LET p == ascii_value(k)
                    e == p + 128
                    u == 57344 + ((33 + k - 1 + 32) - 32)
                IN  /\ Cardinality({p, e, u}) = 3
                    /\ Resolves(p, GlyphName(k + 1))
                    /\ Resolves(e, GlyphName(k + 1))
                    /\ Resolves(u, GlyphName(k + 1))

(***************************************************************************)
(* C4: the first content glyph (index 0) has original_pos = 32, its        *)
(* primary code is overridden to 62, and cmap[62] is glyph00001 after      *)
(* create_font.                                                            *)
(***************************************************************************)
C4_FirstGlyphAt62 ==
    (Created /\ n >= 1) =>
        /\ original_pos(0) = 32
        /\ ascii_value(0) = 62
        /\ Resolves(62, "glyph00001")

(***************************************************************************)
(* C5: after create_font, for every content glyph index k whose primary    *)
(* code p is in 97..122, both p and p - 32 resolve to glyph{k+1}.          *)
(***************************************************************************)
C5_CaseBoth ==
    Created =>
        \A k \in 0..(n - 1) :
            LET p == ascii_value(k)
            IN  (p >= 97 /\ p <= 122) =>
                    /\ Resolves(p, GlyphName(k + 1))
                    /\ Resolves(p - 32, GlyphName(k + 1))

\* C5 as amended: the same, for character lists of at most 97 cells
C5_CaseBothUpTo97 ==
    (Created /\ n <= 97) =>
        \A k \in 0..(n - 1) :
            LET p == ascii_value(k)
            IN  (p >= 97 /\ p <= 122) =>
                    /\ Resolves(p, GlyphName(k + 1))
                    /\ Resolves(p - 32, GlyphName(k + 1))

\* the 96-cell sheet: glyph index 65 is resolved by 'a' and by 'A'
C5_Witness ==
    /\ Created
    /\ n = 96
    /\ ascii_value(65) = 97
    /\ Resolves(97, "glyph00066")
    /\ Resolves(65, "glyph00066")

(***************************************************************************)
(* C6: after create_font on n characters the glyph order is .notdef,       *)
(* glyph00001 .. glyph{n}, glyph{n+1}, no name occurs twice, and every     *)
(* name used by the character map, the outlines and the metrics occurs     *)
(* exactly once in the glyph order.                                        *)
(***************************************************************************)
C6_GlyphOrder ==
    Created =>
        /\ Len(glyphOrder) = n + 2
        /\ glyphOrder[1] = ".notdef"
        /\ \A k \in 1..(n + 1) : glyphOrder[k + 1] = GlyphName(k)
        /\ \A j, k \in 1..Len(glyphOrder) : j # k => glyphOrder[j] # glyphOrder[k]
        /\ \A name \in Range(cmap) \cup DOMAIN glyf \cup DOMAIN hmtx :
              Occurrences(glyphOrder, name) = 1

C6_Witness ==
    /\ Created
    /\ n = 96
    /\ glyphOrder[98] = "glyph00097"
    /\ "glyph00097" \in Range(cmap)
    /\ "glyph00096" \in DOMAIN glyf

(***************************************************************************)
(* C7: when create_font returns, the metrics table has exactly one entry   *)
(* per name of the glyph order, each (1024, 0); the number of entries, the *)
(* glyph-order length n + 2, maxp.numGlyphs and hhea.numberOfHMetrics are  *)
(* all equal.                                                              *)
(***************************************************************************)
C7_Counts ==
    Created =>
        /\ DOMAIN hmtx = {glyphOrder[k] : k \in 1..Len(glyphOrder)}
        /\ \A name \in DOMAIN hmtx : hmtx[name] = <<1024, 0>>
        /\ Cardinality(DOMAIN hmtx) = Len(glyphOrder)
        /\ Len(glyphOrder) = n + 2
        /\ maxp.numGlyphs = Len(glyphOrder)
        /\ hhea.numberOfHMetrics = Len(glyphOrder)

C7_Witness ==
    /\ Created
    /\ n = 96
    /\ Cardinality(DOMAIN hmtx) = 98
    /\ maxp.numGlyphs = 98

(***************************************************************************)
(* C8: maxp.maxPoints = 4 and maxp.maxContours = 1 bound every outline of  *)
(* the font: each glyph has at most 1 contour and at most 4 points.        *)
(***************************************************************************)
C8_MaxProfile ==
    Created =>
        /\ maxp.maxPoints = 4
        /\ maxp.maxContours = 1
        /\ \A name \in DOMAIN glyf :
              /\ Len(glyf[name]) <= 1
              /\ \A k \in 1..Len(glyf[name]) : Len(glyf[name][k]) <= 4

(***************************************************************************)
(* C9: the outline of a cell with at least one ink pixel has exactly one   *)
(* 4-point square per ink pixel, with corners (x*128, (7-y)*128) and       *)
(* ((x+1)*128, (8-y)*128), no square for a background pixel, as many       *)
(* paths as ink pixels, and every point within [0,1024] x [0,1024].        *)
(***************************************************************************)
C9_SquarePerInkPixel ==
    Created =>
        \A c \in 1..n :
            LET ink == InkOf(characters[c])
                out == glyf[GlyphName(c)]
            IN  ink # {} =>
                    /\ Len(out) = Cardinality(ink)
                    /\ \A p \in ink :
                          Cardinality({k \in 1..Len(out) : IsSquareOf(out[k], p)}) = 1
                    /\ \A k \in 1..Len(out) :
                          /\ \E p \in ink : IsSquareOf(out[k], p)
                          /\ \A pt \in PointsOf(out[k]) : InBox(pt)

\* two ink pixels side by side, not of the darkest colour, give two squares
C9_Witness ==
    /\ Created
    /\ n = 1
    /\ InkOf(characters[1]) = {<<3, 0>>, <<4, 0>>}
    /\ characters[1][0][3] = <<159, 92, 83, 255>>
    /\ Len(glyf["glyph00001"]) = 2

(***************************************************************************)
(* C10: a cell without ink pixels gets the degenerate path (0,0),(0,0) as  *)
(* its outline, never a missing entry, and still gets its name, its        *)
(* metrics entry and, when it is processed, its character codes.           *)
(***************************************************************************)
IsBlank(char_img) == \A p \in Positions : RGB(char_img[p[2]][p[1]]) = <<159, 91, 83>>

C10_BlankCell ==
    (pc \in {"glyphs", "created"}) =>
        \A k \in 0..(i - 1) :
            IsBlank(characters[k + 1]) =>
                LET name == GlyphName(k + 1)
                IN  /\ name \in DOMAIN glyf
                    /\ glyf[name] = << << <<0, 0>>, <<0, 0>> >> >>
                    /\ name \in DOMAIN hmtx
                    /\ Occurrences(glyphOrder, name) = 1
                    /\ \E c \in DOMAIN cmap : cmap[c] = name
                    /\ (pc = "glyphs" /\ k = i - 1) =>
                          /\ Resolves(ascii_value(k), name)
                          /\ Resolves(ascii_value(k) + 128, name)
                          /\ Resolves(57344 + k + 32, name)

C10_Witness ==
    /\ pc = "glyphs"
    /\ i = 5
    /\ IsBlank(characters[5])
    /\ glyf["glyph00005"] = << << <<0, 0>>, <<0, 0>> >> >>
    /\ Resolves(4, "glyph00005")

(***************************************************************************)
(* C11: when create_font has ended with a metrics table whose length       *)
(* differs from the glyph order's, or with a character code that names a   *)
(* glyph absent from the glyph order, the call has failed with an error    *)
(* and the writer (TTFont.save) has not been invoked.                      *)
(***************************************************************************)
TablesConsistent ==
    /\ Cardinality(DOMAIN hmtx) = Len(glyphOrder)
    /\ \A c \in DOMAIN cmap : Occurrences(glyphOrder, cmap[c]) >= 1

C11_RejectsInconsistent ==
    (pc \in {"aborted", "created"} /\ ~TablesConsistent) =>
        /\ pc = "aborted"
        /\ ~saved

(***************************************************************************)
(* C12: the writer is invoked only when some create_font call has run to   *)
(* completion before; under convert_pcx_to_ttf only after create_font has  *)
(* returned.                                                               *)
(***************************************************************************)
C12_NoPartialWrite ==
    /\ saved => completed
    /\ (caller = "convert" /\ saved) => pc = "created"

====
